---------------------------- MODULE Spec2Model ----------------------------
(***************************************************************************)
(* A model of archive_system.py: the mtree manifest parser (parse_mtree),  *)
(* the database loader (read_all_mtrees), the reconciler                   *)
(* (compare_pacman_and_filesystem) and the verifier (same_as_installed).   *)
(*                                                                         *)
(* Byte strings and paths are sequences of one-character strings, so that  *)
(* os.path.join, os.path.normpath, the octal-escape substitution and the   *)
(* ignore regular expressions are computed character by character.         *)
(***************************************************************************)
EXTENDS Naturals, Sequences, FiniteSets

VARIABLES
    \* ---- parse_mtree (one generator per manifest file)
    pstate,           \* "idle" | "parsing" | "failed" | "returned": position of the load
    start,            \* the root argument parse_mtree was called with
    root,             \* the local variable root (the current directory context)
    prevRoot,         \* value of root when the last line was read
    global_keywords,  \* the dict global_keywords
    out,              \* what the last line made the generator yield (or NoYield)
    nfiles,           \* manifests opened so far
    nlines,           \* lines read so far (all manifests)
    \* ---- read_all_mtrees
    entries,          \* the dict entries (the tracked database)
    lines,            \* history: the lines read from the current manifest
    yields,           \* history: every (path, keywords) yielded during this load
    \* ---- the file system and the process
    fs,               \* path -> what is on disk there now
    uid,              \* os.getuid()
    nchanges,         \* changes made to the file system during the comparison
    \* ---- compare_pacman_and_filesystem
    cstate,           \* "start" | "comparing" | "returned" | "raised"
    raised,           \* the exception that left compare_pacman_and_filesystem, or None
    real_files,       \* the set real_files
    new,              \* the set new
    missing,          \* the set missing
    changed,          \* the set changed, as far as the generator got
    todo,             \* paths of real_files & installed not yet verified
    consulted,        \* history: the paths is_ignored_path was called with
    \* ---- same_as_installed
    cur,              \* the path being verified, or NoPath
    vpc,              \* position in same_as_installed
    log,              \* history: path -> the checks made on it, in order
    verdict           \* history: path -> what same_as_installed returned

pvars == <<pstate, start, root, prevRoot, global_keywords, out, nfiles, nlines>>
lvars == <<entries, lines, yields>>
evars == <<fs, uid, nchanges>>
cvars == <<cstate, raised, real_files, new, missing, changed, todo, consulted>>
vvars == <<cur, vpc, log, verdict>>
vars == <<pvars, lvars, evars, cvars, vvars>>

---------------------------------------------------------------------------
(* Python values *)

\* keywords.get(key) of a missing key
None == "<None>"

\* dict.get
Get(d, k) == IF k \in DOMAIN d THEN d[k] ELSE None

\* dict.update: the keys of e overwrite those of d
Update(d, e) == [k \in (DOMAIN d) \cup (DOMAIN e) |-> IF k \in DOMAIN e THEN e[k] ELSE d[k]]

\* del d[k] for every k of ks that is in d
Without(d, ks) == [k \in (DOMAIN d) \ ks |-> d[k]]

EmptyDict == [k \in {} |-> None]

---------------------------------------------------------------------------
(* Character sequences *)

StartsWith(s, p) == Len(s) >= Len(p) /\ SubSeq(s, 1, Len(p)) = p

\* c in s
Contains(s, c) == \E i \in 1..Len(s) : s[i] = c

\* s.split('/')
RECURSIVE SplitFrom(_, _, _)
SplitFrom(s, comp, acc) ==
    IF s = <<>> THEN Append(acc, comp)
    ELSE IF Head(s) = "/" THEN SplitFrom(Tail(s), <<>>, Append(acc, comp))
    ELSE SplitFrom(Tail(s), Append(comp, Head(s)), acc)

Split(s) == SplitFrom(s, <<>>, <<>>)

\* '/'.join(comps)
RECURSIVE JoinSlash(_)
JoinSlash(comps) ==
    IF comps = <<>> THEN <<>>
    ELSE IF Len(comps) = 1 THEN comps[1]
    ELSE comps[1] \o <<"/">> \o JoinSlash(Tail(comps))

\* os.path.join(a, b) of posixpath
join(a, b) ==
    IF StartsWith(b, <<"/">>) THEN b
    ELSE IF a = <<>> \/ a[Len(a)] = "/" THEN a \o b
    ELSE a \o <<"/">> \o b

\* the component loop of posixpath.normpath
RECURSIVE NormComps(_, _, _)
NormComps(comps, new_comps, initial_slashes) ==
    IF comps = <<>> THEN new_comps
    ELSE LET comp == Head(comps) IN
         IF comp = <<>> \/ comp = <<".">>
         THEN NormComps(Tail(comps), new_comps, initial_slashes)
         ELSE IF \/ comp # <<".", ".">>
                 \/ (initial_slashes = 0 /\ new_comps = <<>>)
                 \/ (new_comps # <<>> /\ new_comps[Len(new_comps)] = <<".", ".">>)
         THEN NormComps(Tail(comps), Append(new_comps, comp), initial_slashes)
         ELSE IF new_comps # <<>>
         THEN NormComps(Tail(comps), SubSeq(new_comps, 1, Len(new_comps) - 1), initial_slashes)
         ELSE NormComps(Tail(comps), new_comps, initial_slashes)

\* posixpath.normpath keeps exactly two leading slashes as two
InitialSlashes(path) ==
    IF ~StartsWith(path, <<"/">>) THEN 0
    ELSE IF StartsWith(path, <<"/", "/">>) /\ ~StartsWith(path, <<"/", "/", "/">>) THEN 2
    ELSE 1

\* os.path.normpath of posixpath
normpath(path) ==
    IF path = <<>> THEN <<".">>
    ELSE LET n == InitialSlashes(path)
             body == JoinSlash(NormComps(Split(path), <<>>, n))
             res == [i \in 1..n |-> "/"] \o body
         IN IF res = <<>> THEN <<".">> ELSE res

---------------------------------------------------------------------------
(* parse_path: octal references are replaced at the byte level *)

OctalDigits == {"0", "1", "2", "3", "4", "5", "6", "7"}

DigitValue(c) ==
    CASE c = "0" -> 0 [] c = "1" -> 1 [] c = "2" -> 2 [] c = "3" -> 3
      [] c = "4" -> 4 [] c = "5" -> 5 [] c = "6" -> 6 [] c = "7" -> 7

\* bytes([n]).decode('utf-8') for the ASCII codes the inputs can spell
Chr(n) ==
    CASE n = 46 -> "." [] n = 47 -> "/" [] n = 97 -> "a" [] n = 98 -> "b"
      [] OTHER -> "?"

\* int(octal_match.group(1), base=8) as a character
octal_match_to_char(d1, d2, d3) ==
    Chr(64 * DigitValue(d1) + 8 * DigitValue(d2) + DigitValue(d3))

\* OCTALS_REFS matches at the head of s
OCTALS_REFS(s) ==
    /\ Len(s) >= 4
    /\ s[1] = "\\"
    /\ s[2] \in OctalDigits /\ s[3] \in OctalDigits /\ s[4] \in OctalDigits

\* OCTALS_REFS.sub(octal_match_to_char, word): leftmost, non-overlapping
RECURSIVE parse_path(_)
parse_path(word) ==
    IF word = <<>> THEN <<>>
    ELSE IF OCTALS_REFS(word)
    THEN <<octal_match_to_char(word[2], word[3], word[4])>> \o parse_path(SubSeq(word, 5, Len(word)))
    ELSE <<Head(word)>> \o parse_path(Tail(word))

---------------------------------------------------------------------------
(* parse_mtree *)

\* dict(parse_keyword(word) for word in words[1:]): a later word wins
RECURSIVE parse_keywords(_)
parse_keywords(kws) ==
    IF kws = <<>> THEN EmptyDict
    ELSE LET last == kws[Len(kws)]
             rest == parse_keywords(SubSeq(kws, 1, Len(kws) - 1))
         IN Update(rest, [k \in {last[1]} |-> last[2]])

get_type(keywords) == Get(keywords, "type")

SetWord == <<"/", "s", "e", "t">>
UnsetWord == <<"/", "u", "n", "s", "e", "t">>

NoYield == [path |-> <<>>, abspath |-> <<>>, keywords |-> EmptyDict, word |-> <<>>]

IsYield(o) == o.abspath # <<>>

\* what the assignments of one path entry line make of root
NextRoot(rt, path, abspath, keywords) ==
    IF get_type(keywords) = "dir" /\ ~Contains(path, "/") THEN abspath ELSE rt

\* the keywords of a path entry line: a copy of global_keywords, updated
EntryKeywords(gk, parsed_keywords) == Update(gk, parsed_keywords)

\* a path entry line updates the alias instead of a copy
GlobalAfterEntry_NoCopy(gk, parsed_keywords) == Update(gk, parsed_keywords)

\* global_keywords after a path entry line: the update went to the copy
GlobalAfterEntry(gk, parsed_keywords) == gk

\* the body of the loop `for line in mtree_file` for one line (already lstripped)
ParseLine(line) ==
    LET first_word == line.first
        parsed_keywords == parse_keywords(line.kws)
    IN
    /\ prevRoot' = root
    /\ UNCHANGED start
    /\ IF first_word = <<>> \/ Head(first_word) = "#"
       THEN /\ UNCHANGED <<root, global_keywords>>
            /\ out' = NoYield
       ELSE IF first_word = SetWord
       THEN /\ global_keywords' = Update(global_keywords, parsed_keywords)
            /\ UNCHANGED root
            /\ out' = NoYield
       ELSE IF first_word = UnsetWord
       THEN /\ global_keywords' = Without(global_keywords, DOMAIN parsed_keywords)
            /\ UNCHANGED root
            /\ out' = NoYield
       ELSE LET keywords == EntryKeywords(global_keywords, parsed_keywords)
                path == parse_path(first_word)
                abspath == normpath(join(root, path))
            IN /\ root' = NextRoot(root, path, abspath, keywords)
               /\ global_keywords' = GlobalAfterEntry(global_keywords, parsed_keywords)
               /\ out' = [path |-> path, abspath |-> abspath,
                          keywords |-> keywords, word |-> first_word]


---------------------------------------------------------------------------
(* read_all_mtrees *)

\* the stored keywords are updated with the new ones instead of replaced
Stored_Merged(es, path, keywords) ==
    IF path \in DOMAIN es THEN Update(es[path], keywords) ELSE keywords

\* what entries[path] = keywords stores
Stored(es, path, keywords) == keywords

\* the body of `for path, keywords in parse_mtree(file_name)` for one yield;
\* o is what parse_mtree produced for the line just read
Insert(o) ==
    IF ~IsYield(o) THEN UNCHANGED <<entries, pstate>>
    ELSE IF o.abspath \in DOMAIN entries
            /\ get_type(entries[o.abspath]) # get_type(o.keywords)
    THEN /\ pstate' = "failed"          \* AssertionError leaves read_all_mtrees
         /\ UNCHANGED entries
    ELSE /\ entries' = Update(entries,
                              [p \in {o.abspath} |-> Stored(entries, o.abspath, o.keywords)])
         /\ UNCHANGED pstate

\* parse_mtree(file_name, st) is entered: the header line is read and checked
Open(sig, st) ==
    /\ prevRoot' = st
    /\ out' = NoYield
    /\ lines' = <<>>
    /\ nfiles' = nfiles + 1
    /\ UNCHANGED <<nlines, entries, yields>>
    /\ IF sig
       THEN /\ pstate' = "parsing"
            /\ start' = st
            /\ root' = st
            /\ global_keywords' = EmptyDict
       ELSE /\ pstate' = "failed"       \* assert header.startswith(b'#mtree')
            /\ UNCHANGED <<start, root, global_keywords>>

---------------------------------------------------------------------------
(* is_ignored_path *)

\* the compiled patterns; "." in a pattern is the regular expression's
\* any-character, "^" is kept as the flag anchored
IGNORED_PATH_CHECKERS ==
    {
      [anchored |-> TRUE ,
       pat |-> <<"/", "h", "o", "m", "e", "/">>],
      [anchored |-> TRUE ,
       pat |-> <<"/", "t", "m", "p", "/">>],
      [anchored |-> TRUE ,
       pat |-> <<"/", "d", "e", "v", "/">>],
      [anchored |-> TRUE ,
       pat |-> <<"/", "p", "r", "o", "c", "/">>],
      [anchored |-> TRUE ,
       pat |-> <<"/", "s", "y", "s", "/">>],
      [anchored |-> TRUE ,
       pat |-> <<"/", "r", "u", "n", "/">>],
      [anchored |-> TRUE ,
       pat |-> <<"/", "e", "t", "c", "/", "c", "a", "-", "c", "e", "r", "t", "i", "f", "i", "c", "a", "t", "e", "s", "/", "e", "x", "t", "r", "a", "c", "t", "e", "d", "/">>],
      [anchored |-> TRUE ,
       pat |-> <<"/", "u", "s", "r", "/", "s", "h", "a", "r", "e", "/", "m", "i", "m", "e", "/">>],
      [anchored |-> TRUE ,
       pat |-> <<"/", "e", "t", "c", "/", "s", "s", "l", "/", "c", "e", "r", "t", "s", "/">>],
      [anchored |-> TRUE ,
       pat |-> <<"/", "b", "o", "o", "t", "/", "E", "F", "I", "/", "B", "O", "O", "T", "/", "i", "c", "o", "n", "s">>],
      [anchored |-> TRUE ,
       pat |-> <<"/", "e", "t", "c", "/", "p", "a", "c", "m", "a", "n", ".", "d", "/", "g", "n", "u", "p", "g", "/">>],
      [anchored |-> TRUE ,
       pat |-> <<"/", "v", "a", "r", "/", "c", "a", "c", "h", "e", "/">>],
      [anchored |-> TRUE ,
       pat |-> <<"/", "v", "a", "r", "/", "l", "o", "g", "/">>],
      [anchored |-> TRUE ,
       pat |-> <<"/", "v", "a", "r", "/", "t", "m", "p", "/">>],
      [anchored |-> TRUE ,
       pat |-> <<"/", "v", "a", "r", "/", "l", "i", "b", "/", "d", "o", "c", "k", "e", "r">>],
      [anchored |-> TRUE ,
       pat |-> <<"/", "v", "a", "r", "/", "l", "i", "b", "/", "p", "a", "c", "m", "a", "n", "/">>],
      [anchored |-> TRUE ,
       pat |-> <<"/", "v", "a", "r", "/", "l", "i", "b", "/", "s", "y", "s", "t", "e", "m", "d", "/", "c", "o", "r", "e", "d", "u", "m", "p", "/">>],
      [anchored |-> FALSE,
       pat |-> <<"/", ".", "c", "a", "c", "h", "e", "/">>],
      [anchored |-> TRUE ,
       pat |-> <<"/", "s", "w", "a", "p">>]
    }

\* re.compile(x).search(path)
search(checker, path) ==
    \E i \in (IF checker.anchored THEN {1} ELSE 1..Len(path)) :
        /\ i + Len(checker.pat) - 1 <= Len(path)
        /\ \A k \in 1..Len(checker.pat) :
              checker.pat[k] = "." \/ checker.pat[k] = path[i + k - 1]

is_ignored_path(path) == \E check \in IGNORED_PATH_CHECKERS : search(check, path)

---------------------------------------------------------------------------
(* The file system as the os.path calls see it *)

NoPath == <<>>

Absent == [kind |-> "absent", content |-> "", fault |-> "none"]
Dir == [kind |-> "dir", content |-> "", fault |-> "none"]
LinkToDir == [kind |-> "link2dir", content |-> "", fault |-> "none"]
LinkBroken == [kind |-> "linkbroken", content |-> "", fault |-> "none"]

\* a regular file, or a symbolic link to one; fault is "perm" when only root
\* may open it and "io" when reading it fails for everybody
FileOf(kind, content, fault) == [kind |-> kind, content |-> content, fault |-> fault]

\* os.path.isfile, os.path.isdir follow symbolic links; os.path.islink does not
isfile(e) == e.kind \in {"file", "link2file"}
isdir(e) == e.kind \in {"dir", "link2dir"}
islink(e) == e.kind \in {"link2file", "link2dir", "linkbroken"}

\* len(content)
SizeOf(content) ==
    CASE content = "x" -> 1 [] content = "y" -> 1 [] content = "zz" -> 2 [] OTHER -> 0

\* st_size of a directory
DirSize == 4096

\* os.stat(path) raises OSError
StatFails(e) == e.kind \in {"absent", "linkbroken"}

\* os.path.getsize(path), when os.stat succeeds
getsize(e) == IF isfile(e) THEN SizeOf(e.content) ELSE DirSize

\* open(path, 'rb') or f.read() raises OSError
ReadFails(e, u) ==
    \/ ~isfile(e)
    \/ e.fault = "io"
    \/ (e.fault = "perm" /\ u # 0)

\* hashlib.md5(content).hexdigest().lower()
md5(content) ==
    CASE content = "x" -> "aa" [] content = "y" -> "bb" [] content = "zz" -> "cc" [] OTHER -> "00"

\* hashlib.sha256(content).hexdigest().lower()
sha256(content) ==
    CASE content = "x" -> "dd" [] content = "y" -> "ee" [] content = "zz" -> "ff" [] OTHER -> "00"

\* kwhash.decode('ascii').lower()
lower(h) ==
    CASE h = "AA" -> "aa" [] h = "BB" -> "bb" [] h = "DD" -> "dd" [] OTHER -> h

\* int(keywords.get(b'size')): the value, or the exception it raises
IntLiterals == {"1", "2"}
int(v) == CASE v = "1" -> 1 [] v = "2" -> 2 [] OTHER -> 0
IntError(v) == IF v = None THEN "TypeError" ELSE IF v \notin IntLiterals THEN "ValueError" ELSE None

---------------------------------------------------------------------------
(* same_as_installed, one os call at a time *)

\* type_eq(path, keywords)
type_eq(e, keywords) ==
    \/ (get_type(keywords) = "file" /\ isfile(e))
    \/ (get_type(keywords) = "dir" /\ isdir(e))
    \/ (get_type(keywords) = "link" /\ islink(e))

\* `if not kwhash: return True` of hash_eq
NoConstraint(kwhash) == kwhash = None \/ kwhash = ""

\* where the `and` chain of same_as_installed goes after a check that held
AfterCheck(check, keywords) ==
    IF check = "size" /\ ~NoConstraint(Get(keywords, "md5digest")) THEN "md5_isfile"
    ELSE IF check \in {"size", "md5"} /\ ~NoConstraint(Get(keywords, "sha256digest"))
    THEN "sha256_isfile"
    ELSE "return_true"

\* the chain goes on after a check that failed
AfterFailed_NoShortCircuit(check, keywords) == AfterCheck(check, keywords)

\* where the `and` chain goes after a check that failed
AfterFailed(check, keywords) == "return_false"

Logged(check, ok, hashed) == [check |-> check, ok |-> ok, hashed |-> hashed]

\* same_as_installed returns v for cur
Return(v) ==
    /\ verdict' = Update(verdict, [p \in {cur} |-> v])
    /\ changed' = IF v THEN changed ELSE changed \cup {cur}
    /\ cur' = NoPath
    /\ vpc' = "return"
    /\ UNCHANGED <<cstate, raised>>

\* an exception leaves same_as_installed and compare_pacman_and_filesystem
Raise(exc) ==
    /\ cstate' = "raised"
    /\ raised' = exc
    /\ UNCHANGED <<verdict, changed, cur, vpc>>

\* `except OSError: assert os.getuid() != 0; return False`
OnOSError == IF uid # 0 THEN Return(FALSE) ELSE Raise("AssertionError")

\* a check of the chain ended with ok; the chain goes on, or returns
Checked(check, ok, hashed) ==
    LET keywords == entries[cur]
        next == IF ok THEN AfterCheck(check, keywords) ELSE AfterFailed(check, keywords)
    IN /\ log' = [log EXCEPT ![cur] = Append(@, Logged(check, ok, hashed))]
       /\ IF next = "return_true" THEN Return(TRUE)
          ELSE IF next = "return_false" THEN Return(FALSE)
          ELSE /\ vpc' = next
               /\ UNCHANGED <<verdict, changed, cur, cstate, raised>>

Verifying(pc) == cstate = "comparing" /\ cur # NoPath /\ vpc = pc

Frame == UNCHANGED <<pvars, lvars, evars, real_files, new, missing, todo, consulted>>

\* lines 375-378
TypeCheck ==
    /\ Verifying("type_eq")
    /\ IF ~type_eq(fs[cur], entries[cur]) THEN Return(FALSE)
       ELSE IF get_type(entries[cur]) # "file" THEN Return(TRUE)
       ELSE /\ vpc' = "size_assert"
            /\ UNCHANGED <<verdict, changed, cur, cstate, raised>>
    /\ UNCHANGED log
    /\ Frame

\* line 354
SizeAssert ==
    /\ Verifying("size_assert")
    /\ IF isfile(fs[cur])
       THEN /\ vpc' = "getsize"
            /\ UNCHANGED <<verdict, changed, cur, cstate, raised>>
       ELSE Raise("AssertionError")
    /\ UNCHANGED log
    /\ Frame

\* line 355
SizeCheck ==
    /\ Verifying("getsize")
    /\ LET expected == Get(entries[cur], "size") IN
       IF StatFails(fs[cur]) THEN OnOSError /\ UNCHANGED log
       ELSE IF IntError(expected) # None THEN Raise(IntError(expected)) /\ UNCHANGED log
       ELSE Checked("size", getsize(fs[cur]) = int(expected), FALSE)
    /\ Frame

\* line 359, for either digest
HashIsFile(check) ==
    /\ Verifying(check \o "_isfile")
    /\ IF isfile(fs[cur])
       THEN /\ vpc' = check \o "_read"
            /\ UNCHANGED <<verdict, changed, cur, cstate, raised, log>>
       ELSE Checked(check, FALSE, FALSE)      \* 'not a file' equals no digest
    /\ Frame

\* lines 361-364 and 371, for either digest
HashRead(check, kwhash, realhash) ==
    /\ Verifying(check \o "_read")
    /\ IF ReadFails(fs[cur], uid) THEN OnOSError /\ UNCHANGED log
       ELSE Checked(check, lower(kwhash) = realhash, TRUE)
    /\ Frame

Md5IsFile == HashIsFile("md5")
Md5Read ==
    /\ cur # NoPath
    /\ HashRead("md5", Get(entries[cur], "md5digest"), md5(fs[cur].content))
Sha256IsFile == HashIsFile("sha256")
Sha256Read ==
    /\ cur # NoPath
    /\ HashRead("sha256", Get(entries[cur], "sha256digest"), sha256(fs[cur].content))

---------------------------------------------------------------------------
(* compare_pacman_and_filesystem *)

\* all_files(): what os.walk('/') lists.  A path below a directory os.walk
\* cannot read is not listed; for the comparison it is like an absent path.
all_files == {p \in DOMAIN fs : fs[p].kind # "absent"}

\* the ignore filter is left out
NewOf_Unfiltered(real, installed) == real \ installed

\* lines 206-209
NewOf(real, installed) == {path \in real \ installed : ~is_ignored_path(path)}

\* the operands of the difference are swapped
MissingOf_Swapped(real, installed) == real \ installed

\* line 211
MissingOf(real, installed) == installed \ real

\* lines 200-211: the database is read, the file system is listed, new and
\* missing are computed
Enumerate ==
    /\ cstate = "start"
    /\ pstate = "returned"
    /\ LET installed == DOMAIN entries
           real == all_files
       IN /\ real_files' = real
          /\ new' = NewOf(real, installed)
          /\ consulted' = real \ installed
          /\ missing' = MissingOf(real, installed)
          /\ todo' = real \cap installed
    /\ cstate' = "comparing"
    /\ UNCHANGED <<raised, changed, pvars, lvars, evars, vvars>>

\* the generator of lines 214-217 takes the next path of the intersection
Begin ==
    /\ cstate = "comparing"
    /\ cur = NoPath
    /\ \E path \in todo :
          /\ cur' = path
          /\ todo' = todo \ {path}
    /\ vpc' = "type_eq"
    /\ UNCHANGED <<pvars, lvars, evars, cstate, raised, real_files, new, missing, changed,
                   consulted, log, verdict>>

\* line 219
ReturnSets ==
    /\ cstate = "comparing"
    /\ cur = NoPath
    /\ todo = {}
    /\ cstate' = "returned"
    /\ UNCHANGED <<pvars, lvars, evars, raised, real_files, new, missing, changed, todo,
                   consulted, vvars>>


---------------------------------------------------------------------------
(* Bounds and inputs *)

MaxPathLines == 2
MaxWordTokens == 3
MaxFiles == 2
MaxLines == 3
MaxFsChanges == 1

\* what a path word is built from; \057 is the octal reference of "/"
PathTokens == {<<"/">>, <<".">>, <<"a">>, <<"\\", "0", "5", "7">>}

RECURSIVE WordsOfLen(_)
WordsOfLen(n) ==
    IF n = 0 THEN {<<>>}
    ELSE {w \o t : w \in WordsOfLen(n - 1), t \in PathTokens}

PathWords == UNION {WordsOfLen(n) : n \in 1..MaxWordTokens}

TypeWords == {<<>>, <<<<"type", "file">>>>, <<<<"type", "dir">>>>}

PathLines ==
    [first : PathWords, kws : TypeWords]
    \cup [first : {SetWord}, kws : {<<<<"type", "dir">>>>}]
    \cup [first : {UnsetWord}, kws : {<<<<"type", "">>>>}]
    \cup [first : {<<>>, <<"#">>}, kws : {<<>>}]

StartRoots == {<<"/">>, <<"/", "a">>}

LoadWords == {<<"a">>, <<"b">>}

LoadKws == {<<>>, <<<<"type", "file">>>>, <<<<"type", "dir">>>>, <<<<"mode", "600">>>>}

LoadLines ==
    [first : LoadWords, kws : LoadKws]
    \cup [first : {SetWord},
          kws : {<<<<"type", "file">>>>, <<<<"type", "dir">>>>, <<<<"mode", "644">>>>}]
    \cup [first : {UnsetWord}, kws : {<<<<"type", "">>>>, <<<<"mode", "">>>>}]
    \cup [first : {<<>>, <<"#">>}, kws : {<<>>}]

---------------------------------------------------------------------------
(* parse_mtree on its own: any caller, any root argument *)

\* no manifest has been opened
ParserIdle ==
    /\ start = <<"/">>
    /\ root = <<"/">>
    /\ prevRoot = <<"/">>
    /\ global_keywords = EmptyDict
    /\ out = NoYield
    /\ nfiles = 0
    /\ nlines = 0
    /\ lines = <<>>
    /\ yields = <<>>

\* compare_pacman_and_filesystem has not been entered
CompareIdle ==
    /\ cstate = "start"
    /\ raised = None
    /\ real_files = {}
    /\ new = {}
    /\ missing = {}
    /\ changed = {}
    /\ todo = {}
    /\ consulted = {}
    /\ cur = NoPath
    /\ vpc = "return"
    /\ nchanges = 0

InitParse ==
    /\ pstate = "idle"
    /\ ParserIdle
    /\ entries = EmptyDict
    /\ CompareIdle
    /\ fs = EmptyDict
    /\ uid = 0
    /\ log = EmptyDict
    /\ verdict = EmptyDict

PathOpen ==
    /\ pstate = "idle"
    /\ nfiles = 0
    /\ \E sig \in BOOLEAN, st \in StartRoots : Open(sig, st)
    /\ UNCHANGED <<evars, cvars, vvars>>

PathLine ==
    /\ pstate = "parsing"
    /\ nlines < MaxPathLines
    /\ \E line \in PathLines : ParseLine(line)
    /\ nlines' = nlines + 1
    /\ UNCHANGED <<pstate, nfiles, lvars, evars, cvars, vvars>>

PathEnd ==
    /\ pstate = "parsing"
    /\ pstate' = "returned"
    /\ UNCHANGED <<start, root, prevRoot, global_keywords, out, nfiles, nlines, lvars>>
    /\ UNCHANGED <<evars, cvars, vvars>>

NextPath == PathOpen \/ PathLine \/ PathEnd

SpecPath == InitParse /\ [][NextPath]_vars

---------------------------------------------------------------------------
(* read_all_mtrees over the manifests glob() finds *)

LoadOpen ==
    /\ pstate = "idle"
    /\ nfiles < MaxFiles
    /\ \E sig \in BOOLEAN : Open(sig, <<"/">>)
    /\ UNCHANGED <<evars, cvars, vvars>>

LoadLine ==
    /\ pstate = "parsing"
    /\ nlines < MaxLines
    /\ \E line \in LoadLines :
          /\ ParseLine(line)
          /\ Insert(out')
          /\ lines' = Append(lines, line)
          /\ yields' = IF IsYield(out') THEN Append(yields, out') ELSE yields
    /\ nlines' = nlines + 1
    /\ UNCHANGED <<nfiles, evars, cvars, vvars>>

\* the manifest is exhausted: the generator returns
LoadEnd ==
    /\ pstate = "parsing"
    /\ pstate' = "idle"
    /\ UNCHANGED <<start, root, prevRoot, global_keywords, out, nfiles, nlines, lvars>>
    /\ UNCHANGED <<evars, cvars, vvars>>

\* glob() is exhausted: return entries
LoadReturn ==
    /\ pstate = "idle"
    /\ pstate' = "returned"
    /\ UNCHANGED <<start, root, prevRoot, global_keywords, out, nfiles, nlines, lvars>>
    /\ UNCHANGED <<evars, cvars, vvars>>

NextLoad == LoadOpen \/ LoadLine \/ LoadEnd \/ LoadReturn

SpecLoad == InitParse /\ [][NextLoad]_vars


---------------------------------------------------------------------------
(* compare_pacman_and_filesystem on a database read_all_mtrees returned *)

\* what the file system may turn a path into while it is being verified:
\* it vanishes, becomes a directory, gets other content, loses its read bit
ChangeTargets ==
    {Absent, Dir, FileOf("file", "zz", "none"), FileOf("file", "x", "perm")}

\* another process changes the path under verification between two os calls
FsChange ==
    /\ cstate = "comparing"
    /\ cur # NoPath
    /\ nchanges < MaxFsChanges
    /\ \E e \in ChangeTargets \ {fs[cur]} : fs' = [fs EXCEPT ![cur] = e]
    /\ nchanges' = nchanges + 1
    /\ UNCHANGED <<pvars, lvars, uid, cvars, vvars>>

NextCompare ==
    \/ Enumerate
    \/ Begin
    \/ TypeCheck
    \/ SizeAssert
    \/ SizeCheck
    \/ Md5IsFile
    \/ Md5Read
    \/ Sha256IsFile
    \/ Sha256Read
    \/ ReturnSets
    \/ FsChange

Uids == {0, 1000}

\* a keywords dict of the given attributes, None meaning the key is missing
KeywordsOf(t, s, m, h) ==
    LET all == [type |-> t, size |-> s, md5digest |-> m, sha256digest |-> h]
    IN [k \in {x \in DOMAIN all : all[x] # None} |-> all[k]]

\* every dict from some of the paths to the given keywords
DatabasesOver(paths, keywords) == UNION {[D -> keywords] : D \in SUBSET paths}

InitOver(paths, databases, entities) ==
    /\ pstate = "returned"
    /\ ParserIdle
    /\ CompareIdle
    /\ entries \in databases
    /\ fs \in [paths -> entities]
    /\ uid \in Uids
    /\ log = [p \in paths |-> <<>>]
    /\ verdict = EmptyDict

ComparePaths ==
    {<<"/", "a">>, <<"/", "b">>, <<"/", "v", "a", "r", "/", "l", "o", "g", "/", "a">>}

CompareKeywords ==
    {KeywordsOf("dir", None, None, None), KeywordsOf("file", "1", "aa", "dd")}

CompareEntities ==
    {Absent, Dir, FileOf("file", "x", "none"), FileOf("file", "zz", "perm")}

InitCompare ==
    InitOver(ComparePaths, DatabasesOver(ComparePaths, CompareKeywords), CompareEntities)

SpecCompare == InitCompare /\ [][NextCompare]_vars

---------------------------------------------------------------------------
(* same_as_installed on one tracked path, every expected entry against     *)
(* every kind of thing on disk                                             *)

VerifyPaths == {<<"/", "a">>}

VerifyKeywords ==
    {KeywordsOf(t, s, m, h) :
        t \in {"file", "dir", "link", None},
        s \in {"1", "2", "x", None},
        m \in {"aa", "AA", "bb", "", None},
        h \in {"dd", "ee", None}}

VerifyEntities ==
    {Absent, Dir, LinkToDir, LinkBroken}
    \cup {FileOf("file", c, f) : c \in {"x", "y", "zz"}, f \in {"none", "perm", "io"}}
    \cup {FileOf("link2file", c, "none") : c \in {"x", "zz"}}

InitVerify == InitOver(VerifyPaths, [VerifyPaths -> VerifyKeywords], VerifyEntities)

SpecVerify == InitVerify /\ [][NextCompare]_vars

---------------------------------------------------------------------------
(* Properties of parse_mtree: paths *)

\* a slash-free name, or "./" followed by one
SingleSegment(word) ==
    \/ ~Contains(word, "/")
    \/ /\ StartsWith(word, <<".", "/">>)
       /\ Len(word) > 2
       /\ ~Contains(SubSeq(word, 3, Len(word)), "/")

DotDot == <<".", ".">>

Parent(dir) == normpath(join(dir, DotDot))

\* C3: a path word without '/' is resolved against the directory context in
\* effect when its line is read; a type=dir entry of a single segment (usr,
\* ./usr) makes its absolute path the context; a bare `..` moves the context
\* to its parent directory whatever its attributes are.
C3_DirectoryContextRule ==
    (pstate = "parsing" /\ IsYield(out)) =>
        /\ ~Contains(out.word, "/") => out.abspath = normpath(join(prevRoot, out.path))
        /\ (get_type(out.keywords) = "dir" /\ SingleSegment(out.word) /\ out.word # DotDot)
              => root = out.abspath
        /\ out.word = DotDot => root = Parent(prevRoot)

\* a '/' after the first character, the first character not being '/'
FullEntry(word) ==
    /\ word # <<>>
    /\ Head(word) # "/"
    /\ Contains(Tail(word), "/")

\* C4: a full entry (a word with an internal '/', such as ./bin/ls) is
\* resolved against the root parse_mtree was called with, whatever directory
\* entries came before it.
C4_FullEntryAgainstStart ==
    (pstate = "parsing" /\ IsYield(out) /\ FullEntry(out.word)) =>
        out.abspath = normpath(join(start, out.path))

\* one leading '/', then components none of which is empty, '.' or '..'
AbsoluteNormalized(path) ==
    \/ path = <<"/">>
    \/ /\ Len(path) > 1
       /\ Head(path) = "/"
       /\ LET comps == Split(Tail(path))
          IN \A i \in 1..Len(comps) : comps[i] \notin {<<>>, <<".">>, DotDot}

\* C5: with the default root '/', every yielded path is absolute and
\* normalized: one leading '/', no '.' or '..' segment, no doubled separator.
C5_YieldedPathsNormalized ==
    (pstate = "parsing" /\ start = <<"/">> /\ IsYield(out)) => AbsoluteNormalized(out.abspath)

---------------------------------------------------------------------------
(* Properties of parse_mtree: the global scope *)

IsEntryLine(line) ==
    /\ line.first # <<>>
    /\ Head(line.first) # "#"
    /\ line.first \notin {SetWord, UnsetWord}

\* the scope the /set and /unset lines of ls leave, applied in order
RECURSIVE ScopeAfter(_)
ScopeAfter(ls) ==
    IF ls = <<>> THEN EmptyDict
    ELSE LET l == ls[Len(ls)]
             before == ScopeAfter(SubSeq(ls, 1, Len(ls) - 1))
             given == parse_keywords(l.kws)
         IN IF l.first = SetWord
            THEN [k \in (DOMAIN before) \cup (DOMAIN given) |->
                     IF k \in DOMAIN given THEN given[k] ELSE before[k]]
            ELSE IF l.first = UnsetWord
            THEN [k \in (DOMAIN before) \ (DOMAIN given) |-> before[k]]
            ELSE before

\* C6: the attributes yielded for a path entry are the global scope at that
\* line (every earlier /set and /unset of this manifest applied in order,
\* starting from the empty scope) overridden by the line's own words, and a
\* path entry line leaves the global scope as it was.
C6_GlobalScope ==
    (pstate \in {"parsing", "idle"} /\ nfiles > 0) =>
        /\ global_keywords = ScopeAfter(lines)
        /\ (lines # <<>> /\ IsEntryLine(lines[Len(lines)])) =>
              LET l == lines[Len(lines)]
                  before == ScopeAfter(SubSeq(lines, 1, Len(lines) - 1))
                  own == parse_keywords(l.kws)
              IN /\ IsYield(out)
                 /\ DOMAIN out.keywords = (DOMAIN before) \cup (DOMAIN own)
                 /\ \A k \in DOMAIN out.keywords :
                       out.keywords[k] = IF k \in DOMAIN own THEN own[k] ELSE before[k]

\* two entries running: the first one's own attribute is not the scope's, and
\* the second one, in a non-empty scope, does not carry it
C6_Witness ==
    /\ pstate = "parsing"
    /\ Len(lines) = 3
    /\ lines[1].first = SetWord
    /\ IsEntryLine(lines[2]) /\ IsEntryLine(lines[3])
    /\ lines[3].kws = <<>>
    /\ \E k \in DOMAIN parse_keywords(lines[2].kws) :
          /\ k \in DOMAIN global_keywords
          /\ parse_keywords(lines[2].kws)[k] # global_keywords[k]
          /\ out.keywords[k] = global_keywords[k]

---------------------------------------------------------------------------
(* Properties of read_all_mtrees *)

YieldsOf(path) == {i \in 1..Len(yields) : yields[i].abspath = path}

LastYieldOf(path) == yields[CHOOSE i \in YieldsOf(path) : \A j \in YieldsOf(path) : j <= i]

TypeConflict ==
    \E i, j \in 1..Len(yields) :
        /\ yields[i].abspath = yields[j].abspath
        /\ get_type(yields[i].keywords) # get_type(yields[j].keywords)

\* C7: an entry whose type differs from the stored one of its path fails the
\* load, which then returns nothing; otherwise the new attribute set replaces
\* the stored one, so every path maps to the attributes of the last entry
\* yielded for it.
C7_InsertContract ==
    /\ TypeConflict => pstate = "failed"
    /\ ~TypeConflict =>
          /\ DOMAIN entries = {yields[i].abspath : i \in 1..Len(yields)}
          /\ \A path \in DOMAIN entries : entries[path] = LastYieldOf(path).keywords

\* a returned database with a path that two manifests described differently
C7_Witness ==
    /\ pstate = "returned"
    /\ nfiles = 2
    /\ \E i, j \in 1..Len(yields) :
          /\ i < j
          /\ yields[i].abspath = yields[j].abspath
          /\ DOMAIN yields[i].keywords # DOMAIN yields[j].keywords
          /\ entries[yields[j].abspath] = yields[j].keywords


---------------------------------------------------------------------------
(* Properties of compare_pacman_and_filesystem *)

VarLogA == <<"/", "v", "a", "r", "/", "l", "o", "g", "/", "a">>

Tracked == DOMAIN entries

\* C1: compare_pacman_and_filesystem returns new = the untracked real paths
\* that are not ignored, missing = the tracked paths that are not real,
\* changed = the tracked real paths same_as_installed found false; the
\* ignore predicate is consulted for untracked paths only, so a tracked path
\* under /var/log/ is missing when absent and changed when it fails, and an
\* untracked one is never new.
C1_Reconcile ==
    cstate = "returned" =>
        /\ new = {p \in real_files : p \notin Tracked /\ ~is_ignored_path(p)}
        /\ missing = Tracked \ real_files
        /\ DOMAIN verdict = Tracked \cap real_files
        /\ changed = {p \in Tracked \cap real_files : ~verdict[p]}
        /\ consulted \cap Tracked = {}
        /\ VarLogA \notin new
        /\ (VarLogA \in Tracked /\ VarLogA \notin real_files) => VarLogA \in missing
        /\ (VarLogA \in Tracked /\ VarLogA \in real_files /\ ~verdict[VarLogA])
              => VarLogA \in changed

\* a tracked path under /var/log/ is reported changed, beside a new and a
\* missing path
C1_Witness ==
    /\ cstate = "returned"
    /\ VarLogA \in Tracked
    /\ VarLogA \in changed
    /\ new # {}
    /\ missing # {}

\* the untracked real paths the ignore filter suppresses
Suppressed == {p \in real_files \ Tracked : is_ignored_path(p)}

PartitionFrame ==
    /\ new \cap missing = {}
    /\ new \cap changed = {}
    /\ missing \cap changed = {}
    /\ new \cap Tracked = {}
    /\ missing \subseteq Tracked \ real_files
    /\ changed \subseteq Tracked \cap real_files

\* C2 as stated: new, the tracked real paths and missing together are all of
\* real and tracked; new, missing and changed are pairwise disjoint;
\* new holds no tracked path, missing only tracked paths that are not real,
\* changed only tracked real paths.
C2_PartitionTotals ==
    cstate = "returned" =>
        /\ new \cup (Tracked \cap real_files) \cup missing = real_files \cup Tracked
        /\ PartitionFrame

\* C2 amended: the union is all of real and tracked except the untracked real
\* paths that match an ignore pattern; the rest as stated.
C2_PartitionTotalsButIgnored ==
    cstate = "returned" =>
        /\ new \cup (Tracked \cap real_files) \cup missing
              = (real_files \cup Tracked) \ Suppressed
        /\ new \cap Suppressed = {}
        /\ PartitionFrame

\* an untracked path under /var/log/ is on disk, beside a missing and a
\* changed path
C2_Witness ==
    /\ cstate = "returned"
    /\ Suppressed # {}
    /\ missing # {}
    /\ changed # {}

\* C10: a failure to compute a path's size or hash never leaves the
\* comparison by an exception, privileged or not: the path is classified as
\* changed and every other path is still classified.
C10_FailuresNeverAbort ==
    /\ cstate # "raised"
    /\ cstate = "returned" => DOMAIN verdict = Tracked \cap real_files

---------------------------------------------------------------------------
(* Properties of same_as_installed *)

Rank(check) == CASE check = "size" -> 1 [] check = "md5" -> 2 [] check = "sha256" -> 3

ChecksOf(l) == {l[i].check : i \in 1..Len(l)}

\* C8: for an expected file that passed the type check, the checks run in
\* the order size, MD5, SHA-256 and stop at the first that fails: a size that
\* differs means changed and no hash computed, a failed MD5 means no SHA-256;
\* a digest attribute that is missing is not checked, and with both missing
\* a matching size alone means unchanged.
C8_CheckOrder ==
    \A p \in DOMAIN log :
        LET l == log[p]
            keywords == entries[p]
        IN l # <<>> =>
            /\ get_type(keywords) = "file"
            /\ l[1].check = "size"
            /\ \A i, j \in 1..Len(l) : i < j => Rank(l[i].check) < Rank(l[j].check)
            /\ \A i \in 1..Len(l) : i < Len(l) => l[i].ok
            /\ \A i \in 1..Len(l) : l[i].hashed => l[1].ok
            /\ "md5digest" \notin DOMAIN keywords => "md5" \notin ChecksOf(l)
            /\ "sha256digest" \notin DOMAIN keywords => "sha256" \notin ChecksOf(l)
            /\ p \in DOMAIN verdict =>
                  /\ ~l[Len(l)].ok => ~verdict[p]
                  /\ verdict[p] => \A i \in 1..Len(l) : l[i].ok
                  /\ ({"md5digest", "sha256digest"} \cap DOMAIN keywords = {} /\ l[1].ok)
                        => (verdict[p] /\ Len(l) = 1)

\* the MD5 of the file was computed and differs: changed, SHA-256 expected
\* but never computed
C8_Witness ==
    \E p \in DOMAIN verdict :
        /\ "sha256digest" \in DOMAIN entries[p]
        /\ Len(log[p]) = 2
        /\ log[p][1] = Logged("size", TRUE, FALSE)
        /\ log[p][2] = Logged("md5", FALSE, TRUE)
        /\ ~verdict[p]

\* the kinds of thing on disk an expected type stands for
KindsOf(type) ==
    CASE type = "file" -> {"file"}
      [] type = "dir" -> {"dir"}
      [] type = "link" -> {"link2file", "link2dir", "linkbroken"}

\* C9: the expected type must be the kind of the path itself (regular file,
\* directory, symbolic link); a mismatch means false with no size or hash
\* check, and for dir and link a match alone means true.  (Stated for a file
\* system nobody changed meanwhile.)
C9_TypeCheck ==
    \A p \in DOMAIN verdict :
        LET type == get_type(entries[p]) IN
        (nchanges = 0 /\ type \in {"file", "dir", "link"}) =>
            /\ fs[p].kind \notin KindsOf(type) => (~verdict[p] /\ log[p] = <<>>)
            /\ (type # "file" /\ fs[p].kind \in KindsOf(type)) => verdict[p]

=============================================================================
